---- MODULE Spec2Model ----
(***************************************************************************)
(* Trajectory planner of a 6-DOF arm (TrajectoryPlannerV1_0.py), the       *)
(* executor that runs a trajectory on the robot (RobotExecuterV1_3.py)     *)
(* and the GUI that drives both (main.py).                                 *)
(*                                                                         *)
(*   Spec          : one planning call after another                       *)
(*   ClearanceSpec : the clearance expression at points around the box     *)
(*   ExecSpec      : one executing call, its logging thread and the robot  *)
(*   GuiSpec       : the windows and slots of the GUI                      *)
(*                                                                         *)
(* Fixed-point units                                                       *)
(*   angles at the boundary : 0.01 degree   (18000 = 180 degrees)          *)
(*   angles inside          : 1e-4 radian   (31416 = pi)                   *)
(*   lengths                : 1e-4 metre    (10000 = 1 m)                  *)
(*   matrix entries         : value * Scale (Scale = 10000)                *)
(* Angles are taken on the 30-degree grid, where cos and sin are tabulated.*)
(* Python indices are 0-based; a matrix column k of the code is element    *)
(* k + 1 of the sequence that models it.                                   *)
(***************************************************************************)
EXTENDS Integers, Sequences, FiniteSets, TLC

\* Largest number of waypoints in one request (model bound).
MaxWaypoints == 2

\* Fixed-point scale of matrix entries and lengths.
Scale == 100 * 100

\* np.pi in 1e-4 rad.
PI == 31416

\* 180 degrees in 0.01 degree.
HalfTurnDeg == 180 * 100

\* 30 degrees in 1e-4 rad: spacing of the angle grid (PI / 6).
GridRad == PI \div 6

None == "None"

Max(a, b) == IF a >= b THEN a ELSE b

\* Round x / d to the nearest integer (d > 0).
Round(x, d) == (x + d \div 2) \div d

\* Fixed-point product a * b / Scale.
FMul(a, b) == Round(a * b, Scale)

\* Fixed-point square x * x / Scale, split so that the product stays in range.
SqFix(x) == Round((x \div 100) * x, 100) + Round((x % 100) * x, Scale)

RECURSIVE SumSeq(_)
SumSeq(s) == IF s = <<>> THEN 0 ELSE Head(s) + SumSeq(Tail(s))

(***************************************************************************)
(* numpy conversions                                                       *)
(***************************************************************************)
deg2rad(c) == Round(c * PI, HalfTurnDeg)

rad2deg(r) == Round(r * HalfTurnDeg, PI)

\* np.radians(wp): element-wise, keeps the length of wp.
np_radians(wp) == [j \in 1..Len(wp) |-> deg2rad(wp[j])]

\* np.rad2deg(optimized_q): element-wise on the matrix.
np_rad2deg(m) == [k \in 1..Len(m) |-> [j \in 1..Len(m[k]) |-> rad2deg(m[k][j])]]

(***************************************************************************)
(* Trigonometry on the 30-degree grid, scaled by Scale.                    *)
(***************************************************************************)
CosTable == <<10000, 8660, 5000, 0, -5000, -8660, -10000, -8660, -5000, 0, 5000, 8660>>

Cos(r) == CosTable[((r \div GridRad) % 12) + 1]

Sin(r) == CosTable[(((r \div GridRad) - 3) % 12) + 1]

(***************************************************************************)
(* DH + TCP offset                                                         *)
(***************************************************************************)
dh_transform(theta, d, a, alpha) ==
  << << Cos(theta), -FMul(Sin(theta), Cos(alpha)), FMul(Sin(theta), Sin(alpha)), FMul(a, Cos(theta)) >>,
     << Sin(theta), FMul(Cos(theta), Cos(alpha)), -FMul(Cos(theta), Sin(alpha)), FMul(a, Sin(theta)) >>,
     << 0, Sin(alpha), Cos(alpha), d >>,
     << 0, 0, 0, Scale >> >>

tcp_offset ==
  << << Scale, 0, 0, 0 >>,
     << 0, Scale, 0, 0 >>,
     << 0, 0, Scale, 2000 >>,
     << 0, 0, 0, Scale >> >>

Eye4 ==
  << << Scale, 0, 0, 0 >>,
     << 0, Scale, 0, 0 >>,
     << 0, 0, Scale, 0 >>,
     << 0, 0, 0, Scale >> >>

mtimes(A, B) ==
  [i \in 1..4 |-> [j \in 1..4 |->
     Round(A[i][1] * B[1][j] + A[i][2] * B[2][j] + A[i][3] * B[3][j] + A[i][4] * B[4][j], Scale)]]

DH_d == <<1273, 0, 0, 1639, 1157, 922>>

DH_a == <<0, -6120, -5723, 0, 0, 0>>

DH_alpha == <<3 * GridRad, 0, 0, 3 * GridRad, -3 * GridRad, 0>>

RECURSIVE Chain(_, _)
Chain(q, i) ==
  IF i = 0 THEN Eye4
  ELSE mtimes(Chain(q, i - 1), dh_transform(q[i], DH_d[i], DH_a[i], DH_alpha[i]))

\* End-effector position T[0:3, 3] of the chain followed by the TCP offset.
forward_kinematics(q) ==
  LET T == mtimes(Chain(q, 6), tcp_offset)
  IN  << T[1][4], T[2][4], T[3][4] >>

(***************************************************************************)
(* Inputs of the model                                                     *)
(***************************************************************************)
\* Joint configurations in 0.01 degree.
ZeroDeg == <<0, 0, 0, 0, 0, 0>>

A30Deg == <<3000, 3000, 3000, 3000, 3000, 3000>>

A60Deg == <<6000, 6000, 6000, 6000, 6000, 6000>>

A90Deg == <<9000, 9000, 9000, 9000, 9000, 9000>>

\* End effector strictly inside the workcell fixture box.
InsideDeg == <<-9000, -9000, -12000, -3000, 12000, 0>>

\* End effector outside the box, 4 mm from it.
NearDeg == <<-9000, -15000, -6000, 6000, -12000, 0>>

\* Joint 6 at 210 degrees, beyond the +/-pi limit.
OverLimitDeg == <<0, 0, 0, 0, 0, 21000>>

\* Waypoints that do not have 6 components.
ShortWaypoints == { <<6000>>, <<0, 0, 0>> }

SixDeg == {ZeroDeg, A30Deg, A60Deg, A90Deg, InsideDeg, NearDeg, OverLimitDeg}

WaypointInputsDeg == SixDeg \cup ShortWaypoints

\* Points the backend may return as columns of a solution.
SolverGrid == {np_radians(w) : w \in SixDeg}

\* Values of steps_between_waypoints a direct caller of setup_optimization passes.
StepChoices == {0, 1, 2, 3}

SeqsUpTo(S, n) == UNION {[1..m -> S] : m \in 1..n}

\* The workcell fixture of optimize_from_waypoints_deg.
FixtureBox == <<-950, 1150, -7600, -7000, 1250, 3250>>

ObstacleChoices == { <<>>, <<FixtureBox>> }

(***************************************************************************)
(* setup_optimization                                                      *)
(***************************************************************************)
NoErr == [kind |-> None, origin |-> None, status |-> None]

EmptyNLP == [N |-> 0, f |-> None, bounds |-> {}, pins |-> {}, clear |-> {}]

\* Slip: one segment counted per waypoint instead of per pair.
NumSamples_PerWaypoint(wps, steps) == Len(wps) * steps + 1

\* N = (len(waypoints) - 1) * steps_between_waypoints + 1
NumSamples(wps, steps) == (Len(wps) - 1) * steps + 1

\* Slip: range(5), the last joint is left unbounded.
LimitConstraints_FiveJoints(limits, N) ==
  {[j |-> j, cols |-> 0..(N - 1), lo |-> limits[j + 1][1], hi |-> limits[j + 1][2]] : j \in 0..4}

\* for j in range(6): opti.bounded(joint_limits[j][0], q[j, :], joint_limits[j][1])
LimitConstraints(limits, N) ==
  {[j |-> j, cols |-> 0..(N - 1), lo |-> limits[j + 1][1], hi |-> limits[j + 1][2]] : j \in 0..5}

\* Slip: 1-based waypoint number used for the column index.
WaypointIdx_OneBased(i, steps) == (i + 1) * steps

\* Slip: steps_between_waypoints samples inserted between two waypoints.
WaypointIdx_Inserted(i, steps) == i * (steps + 1)

\* Slip: integer halving of the column index.
WaypointIdx_Halved(i, steps) == (i * steps) \div 2

\* idx = i * steps_between_waypoints
WaypointIdx(i, steps) == i * steps

\* q[:, idx] == wp is defined for a 6-vector and, by scalar broadcast, for a
\* 1-vector; any other length is a dimension mismatch raised by the backend.
PinDefined(wp) == Len(wp) \in {1, 6}

PinValue(wp) == IF Len(wp) = 1 THEN [j \in 1..6 |-> wp[1]] ELSE wp

\* Number of waypoints pinned before the loop stops (all of them, or those
\* before the first dimension mismatch).
PinnedCount(wps) ==
  IF \A i \in 1..Len(wps) : PinDefined(wps[i]) THEN Len(wps)
  ELSE (CHOOSE i \in 1..Len(wps) :
          /\ ~PinDefined(wps[i])
          /\ \A h \in 1..(i - 1) : PinDefined(wps[h])) - 1

\* for i, wp in enumerate(waypoints): opti.subject_to(q[:, idx] == wp)
WaypointConstraints(wps, steps) ==
  {[i |-> i, idx |-> WaypointIdx(i, steps), wp |-> PinValue(wps[i + 1])] : i \in 0..(PinnedCount(wps) - 1)}

\* Slip: range(N - 1), the last sample gets no clearance constraint.
ObstacleConstraints_SkipLast(N, obs, dmin) ==
  {[k |-> k, o |-> o, box |-> obs[o], d_min |-> dmin] : k \in 0..(N - 2), o \in 1..Len(obs)}

\* Slip: an empty obstacle list falls back to the workcell fixture.
ObstacleConstraints_DefaultBox(N, obs, dmin) ==
  LET used == IF obs = <<>> THEN << <<-950, 1150, -7600, -7000, 1250, 3250>> >> ELSE obs
  IN  {[k |-> k, o |-> o, box |-> used[o], d_min |-> dmin] : k \in 0..(N - 1), o \in 1..Len(used)}

\* for k in range(N): for box in obstacles: opti.subject_to(outside_dist_sq >= d_min**2)
ObstacleConstraints(N, obs, dmin) ==
  {[k |-> k, o |-> o, box |-> obs[o], d_min |-> dmin] : k \in 0..(N - 1), o \in 1..Len(obs)}

\* Slip: one Opti object kept at module level and reused; it still carries a
\* waypoint equality of an earlier call.
ca_Opti_pooled ==
  [EmptyNLP EXCEPT !.pins = {[i |-> 0, idx |-> 0, wp |-> [j \in 1..6 |-> 3 * GridRad]]}]

\* opti = ca.Opti(): a new problem without objective or constraints.
ca_Opti == EmptyNLP

\* The problem as it stands when setup_optimization returns or raises.
setup_nlp(wps, steps, limits, obs, dmin) ==
  LET N == NumSamples(wps, steps)
      raised == PinnedCount(wps) < Len(wps)
      new == ca_Opti
  IN  [N |-> N,
       f |-> "sumsqr_dq",
       bounds |-> new.bounds \cup LimitConstraints(limits, N),
       pins |-> new.pins \cup WaypointConstraints(wps, steps),
       clear |-> new.clear \cup (IF raised THEN {} ELSE ObstacleConstraints(N, obs, dmin))]

setup_raises(wps) == PinnedCount(wps) < Len(wps)

(***************************************************************************)
(* The NLP backend (CasADi Opti with ipopt), by its contract: opti.solve()  *)
(* either returns a point that satisfies every posted constraint and has    *)
(* the least objective, or raises RuntimeError carrying the solver's return *)
(* status.  The search space is SolverGrid; tolerances of the solver are    *)
(* below the resolution of the grid.                                        *)
(***************************************************************************)
Abs(x) == IF x >= 0 THEN x ELSE -x

\* Slip: the fmax(., 0) clamps are dropped; the term is min - max everywhere.
outside_axis_unclamped(lo, hi, v) == (lo - v) + (v - hi)

\* ca.fmax(min - p, 0) + ca.fmax(p - max, 0)
outside_axis(lo, hi, v) == Max(lo - v, 0) + Max(v - hi, 0)

\* Slip: fabs instead of fmax(., 0); a point inside the box gets the box
\* width as its distance.
outside_dist_sq_abs(p, box) ==
  LET dx == Abs(box[1] - p[1]) + Abs(p[1] - box[2])
      dy == Abs(box[3] - p[2]) + Abs(p[2] - box[4])
      dz == Abs(box[5] - p[3]) + Abs(p[3] - box[6])
  IN  dx * dx + dy * dy + dz * dz

\* dx**2 + dy**2 + dz**2 with d = fmax(min - p, 0) + fmax(p - max, 0)
outside_dist_sq(p, box) ==
  LET dx == outside_axis(box[1], box[2], p[1])
      dy == outside_axis(box[3], box[4], p[2])
      dz == outside_axis(box[5], box[6], p[3])
  IN  dx * dx + dy * dy + dz * dz

\* Positions of the grid points, computed once.
FKOf == [c \in SolverGrid |-> forward_kinematics(c)]

\* Column c placed at index k satisfies every constraint posted on column k.
ColumnFeasible(nlp, k, c) ==
  /\ \A b \in nlp.bounds : k \in b.cols => (b.lo <= c[b.j + 1] /\ c[b.j + 1] <= b.hi)
  /\ \A p \in nlp.pins : p.idx = k => c = p.wp
  /\ \A o \in nlp.clear : o.k = k => outside_dist_sq(FKOf[c], o.box) >= o.d_min * o.d_min

Feasible(nlp, q) == \A k \in 0..(nlp.N - 1) : ColumnFeasible(nlp, k, q[k + 1])

\* Slip: opti.minimize is never given the differences; the objective is constant.
sumsqr_dq_unposted(q) == 0

\* Slip: absolute differences summed instead of their squares.
sumsqr_dq_abs(q) ==
  SumSeq([k \in 1..(Len(q) - 1) |->
            SumSeq([j \in 1..6 |-> Abs(q[k + 1][j] - q[k][j])])])

\* ca.sumsqr(q[:, 1:] - q[:, :-1]); 0 for a single column.
sumsqr_dq(q) ==
  SumSeq([k \in 1..(Len(q) - 1) |->
            SumSeq([j \in 1..6 |-> SqFix(q[k + 1][j] - q[k][j])])])

RECURSIVE FeasiblePrefixes(_, _)
FeasiblePrefixes(nlp, n) ==
  IF n = 0 THEN { <<>> }
  ELSE {Append(s, c) : s \in FeasiblePrefixes(nlp, n - 1),
                       c \in {x \in SolverGrid : ColumnFeasible(nlp, n - 1, x)}}

FeasibleSet(nlp) == FeasiblePrefixes(nlp, nlp.N)

\* What a successful opti.solve() may return: a feasible point of least
\* objective among the grid points.
\* sumsqr_dq of two adjacent columns, computed once for the grid points.
PairCost == [a \in SolverGrid, b \in SolverGrid |-> sumsqr_dq(<<a, b>>)]

\* The posted objective at q: sumsqr_dq adds up over adjacent columns.
objective(q) == SumSeq([k \in 1..(Len(q) - 1) |-> PairCost[q[k], q[k + 1]]])

SolverOutcomes(nlp) ==
  LET F == FeasibleSet(nlp)
      values == {objective(q) : q \in F}
      least == CHOOSE m \in values : \A v \in values : m <= v
  IN  IF F = {} THEN {} ELSE {q \in F : objective(q) = least}

SolverFailures == {"Infeasible_Problem_Detected", "Maximum_Iterations_Exceeded"}

(***************************************************************************)
(* State                                                                   *)
(***************************************************************************)
VARIABLES
  pc,               \* position of the planning call
  entry,            \* function the caller entered through
  waypoints_deg,    \* argument of optimize_from_waypoints_deg
  waypoints,        \* argument of setup_optimization (radians)
  steps_between_waypoints,
  joint_limits,
  obstacles,
  d_min,
  opti,             \* the problem built so far
  solveCount,       \* opti.solve() invocations of this call
  optimized_q,      \* sol.value(q)
  result,           \* optimized_q_deg as returned
  printed,          \* columns written to the log
  err,              \* exception that left the call
  earlier           \* TRUE once a planning call has ended in this process

\* One evaluation of the clearance expression of lines 107-112.
VARIABLES
  c_pc,             \* "idle", "input" or "evaluated"
  p_ee,             \* end-effector point
  c_obs,              \* (xmin, xmax, ymin, ymax, zmin, zmax)
  c_d_min,
  d_axis,           \* (dx, dy, dz)
  c_dist_sq,        \* outside_dist_sq
  c_holds           \* outside_dist_sq >= d_min**2

\* One call of execute_trajectory_with_logging / _without_logging and the
\* robot it talks to.
VARIABLES
  x_pc,             \* position of the executing call
  with_logging,     \* TRUE in execute_trajectory_with_logging
  trajectory_deg,   \* argument: the columns, in order
  x_i,              \* columns reached so far (index of the loop)
  sent,             \* movej commands written to port 30002, in order (q_rad)
  reached_at,       \* the state that ended wait_until_reached, per column
  actual_q,         \* joint state of the robot
  con,              \* the RTDE connection
  logging_active,   \* the flag shared with continuous_logging
  t_pc,             \* position of the logging thread
  csv_file,         \* "none", "open" or "closed"
  csv_rows,         \* data rows written
  x_ret,            \* return value
  x_err             \* exception that left the call

\* The GUI of main.py: the stacked windows, the two tables and the handler
\* that is running.
VARIABLES
  window,           \* stack.currentIndex(): 0 Main, 1 Waypoint, 2 Trajectory,
                    \* 3 Loading, 4 Results, 5 Help
  waypointsTable,   \* rows of 6 cell texts
  trajectoryTable,  \* rows of 6 cell texts
  lastOptimized,    \* what the last optimizer call that returned gave back
  timerPending,     \* QTimer.singleShot(100, send_to_robot) not yet fired
  popup,            \* the message box of show_popup is open
  g_pc,             \* "idle", or "executing" inside send_to_robot
  handed,           \* trajectory the executor is running
  commanded_ip,     \* robot address the executor is connected to
  last_check,       \* the last check_connection call
  g_event           \* the last slot and how it ended

plannerVars == <<pc, entry, waypoints_deg, waypoints, steps_between_waypoints, joint_limits,
                 obstacles, d_min, opti, solveCount, optimized_q, result, printed, err, earlier>>

clearanceVars == <<c_pc, p_ee, c_obs, c_d_min, d_axis, c_dist_sq, c_holds>>

execVars == <<x_pc, with_logging, trajectory_deg, x_i, sent, reached_at, actual_q, con,
              logging_active, t_pc, csv_file, csv_rows, x_ret, x_err>>

guiVars == <<window, waypointsTable, trajectoryTable, lastOptimized, timerPending, popup,
             g_pc, handed, commanded_ip, last_check, g_event>>

\* What a planning call leaves alone.
outsidePlanner == <<clearanceVars, execVars, guiVars>>

outsideClearance == <<plannerVars, execVars, guiVars>>

outsideExec == <<plannerVars, clearanceVars, guiVars>>

outsideGui == <<plannerVars, clearanceVars, execVars>>

vars == <<plannerVars, clearanceVars, execVars, guiVars>>

PlannerIdle ==
  /\ pc = "idle"
  /\ entry = None
  /\ waypoints_deg = <<>>
  /\ waypoints = <<>>
  /\ steps_between_waypoints = 0
  /\ joint_limits = <<>>
  /\ obstacles = <<>>
  /\ d_min = 0
  /\ opti = EmptyNLP
  /\ solveCount = 0
  /\ optimized_q = <<>>
  /\ result = <<>>
  /\ printed = <<>>
  /\ err = NoErr
  /\ earlier = FALSE

ClearanceIdle ==
  /\ c_pc = "idle"
  /\ p_ee = <<>>
  /\ c_obs = <<>>
  /\ c_d_min = 0
  /\ d_axis = <<>>
  /\ c_dist_sq = 0
  /\ c_holds = FALSE

ExecIdle ==
  /\ x_pc = "idle"
  /\ with_logging = FALSE
  /\ trajectory_deg = <<>>
  /\ x_i = 0
  /\ sent = <<>>
  /\ reached_at = <<>>
  /\ actual_q = <<>>
  /\ con = "none"
  /\ logging_active = FALSE
  /\ t_pc = "none"
  /\ csv_file = "none"
  /\ csv_rows = 0
  /\ x_ret = None
  /\ x_err = None

NoCheck ==
  [robot_ip |-> <<>>, attempt |-> None, returned |-> FALSE, value |-> FALSE, raised |-> None]

\* stack.setCurrentIndex(0); both tables empty.
GuiStart ==
  /\ window = 0
  /\ waypointsTable = <<>>
  /\ trajectoryTable = <<>>
  /\ lastOptimized = <<>>
  /\ timerPending = FALSE
  /\ popup = FALSE
  /\ g_pc = "idle"
  /\ handed = <<>>
  /\ commanded_ip = <<>>
  /\ last_check = NoCheck
  /\ g_event = <<None, None>>

Init ==
  /\ PlannerIdle
  /\ ClearanceIdle
  /\ ExecIdle
  /\ GuiStart

\* Slip: limits of a full turn either way.
DefaultLimits_FullTurn == [j \in 1..6 |-> <<-2 * PI, 2 * PI>>]

\* joint_limits = [(-np.pi, np.pi)] * 6
DefaultLimits == [j \in 1..6 |-> <<-PI, PI>>]

\* d_min = 0.05
DefaultDMin == 500

\* steps_between_waypoints = 3
DefaultSteps == 3

\* optimize_from_waypoints_deg, up to the call of setup_optimization.
optimize_from_waypoints_deg ==
  /\ pc = "idle"
  /\ \E wd \in SeqsUpTo(WaypointInputsDeg, MaxWaypoints) :
       /\ waypoints_deg' = wd
       /\ waypoints' = [i \in 1..Len(wd) |-> np_radians(wd[i])]
  /\ entry' = "optimize_from_waypoints_deg"
  /\ steps_between_waypoints' = DefaultSteps
  /\ joint_limits' = DefaultLimits
  /\ obstacles' = <<FixtureBox>>
  /\ d_min' = DefaultDMin
  /\ pc' = "setup"
  /\ UNCHANGED <<opti, solveCount, optimized_q, result, printed, err, earlier>>
  /\ UNCHANGED outsidePlanner

\* A caller that builds the request itself, as the module's __main__ could.
call_setup_optimization ==
  /\ pc = "idle"
  /\ \E wd \in SeqsUpTo(WaypointInputsDeg, MaxWaypoints), s \in StepChoices, obs \in ObstacleChoices :
       /\ waypoints' = [i \in 1..Len(wd) |-> np_radians(wd[i])]
       /\ steps_between_waypoints' = s
       /\ obstacles' = obs
  /\ entry' = "setup_optimization"
  /\ waypoints_deg' = <<>>
  /\ joint_limits' = DefaultLimits
  /\ d_min' = DefaultDMin
  /\ pc' = "setup"
  /\ UNCHANGED <<opti, solveCount, optimized_q, result, printed, err, earlier>>
  /\ UNCHANGED outsidePlanner

setup_optimization ==
  /\ pc = "setup"
  /\ opti' = setup_nlp(waypoints, steps_between_waypoints, joint_limits, obstacles, d_min)
  /\ IF setup_raises(waypoints)
       THEN /\ pc' = "raised"
            /\ err' = [kind |-> "RuntimeError", origin |-> "setup_optimization", status |-> "dimension mismatch"]
       ELSE /\ pc' = "solve"
            /\ err' = err
  /\ UNCHANGED <<entry, waypoints_deg, waypoints, steps_between_waypoints, joint_limits,
                 obstacles, d_min, solveCount, optimized_q, result, printed, earlier>>
  /\ UNCHANGED outsidePlanner

\* sol = opti.solve() succeeds; optimized_q = sol.value(q)
solve_succeeds ==
  /\ pc = "solve"
  /\ \E q \in SolverOutcomes(opti) : optimized_q' = q
  /\ solveCount' = solveCount + 1
  /\ pc' = "print"
  /\ UNCHANGED <<entry, waypoints_deg, waypoints, steps_between_waypoints, joint_limits,
                 obstacles, d_min, opti, result, printed, err, earlier>>
  /\ UNCHANGED outsidePlanner

\* Slip: a failed solve is retried once on a problem without clearance
\* constraints.
solve_fails_retry ==
  /\ pc = "solve"
  /\ solveCount' = solveCount + 1
  /\ IF solveCount = 0
       THEN /\ opti' = [opti EXCEPT !.clear = {}]
            /\ pc' = "solve"
            /\ err' = err
       ELSE /\ opti' = opti
            /\ pc' = "raised"
            /\ \E st \in SolverFailures :
                 err' = [kind |-> "RuntimeError", origin |-> "opti.solve", status |-> st]
  /\ UNCHANGED <<entry, waypoints_deg, waypoints, steps_between_waypoints, joint_limits,
                 obstacles, d_min, optimized_q, result, printed, earlier>>
  /\ UNCHANGED outsidePlanner

\* opti.solve() raises; the exception leaves solve_and_print_trajectory and
\* optimize_from_waypoints_deg uncaught.
solve_fails ==
  /\ pc = "solve"
  /\ \E st \in SolverFailures :
       err' = [kind |-> "RuntimeError", origin |-> "opti.solve", status |-> st]
  /\ solveCount' = solveCount + 1
  /\ pc' = "raised"
  /\ UNCHANGED <<entry, waypoints_deg, waypoints, steps_between_waypoints, joint_limits,
                 obstacles, d_min, opti, optimized_q, result, printed, earlier>>
  /\ UNCHANGED outsidePlanner

\* np.rad2deg, the print loop and the return.  For N = 1 sol.value(q) is a
\* one-dimensional array and optimized_q_deg[:, i] raises IndexError.
print_and_return ==
  /\ pc = "print"
  /\ IF opti.N = 1
       THEN /\ pc' = "raised"
            /\ err' = [kind |-> "IndexError", origin |-> "solve_and_print_trajectory", status |-> "too many indices"]
            /\ UNCHANGED <<result, printed>>
       ELSE /\ pc' = "returned"
            /\ result' = np_rad2deg(optimized_q)
            /\ printed' = np_rad2deg(optimized_q)
            /\ err' = err
  /\ UNCHANGED <<entry, waypoints_deg, waypoints, steps_between_waypoints, joint_limits,
                 obstacles, d_min, opti, solveCount, optimized_q, earlier>>
  /\ UNCHANGED outsidePlanner

\* The call is over; its locals are gone and the next call starts afresh.
call_ends ==
  /\ pc \in {"returned", "raised"}
  /\ pc' = "idle"
  /\ entry' = None
  /\ waypoints_deg' = <<>>
  /\ waypoints' = <<>>
  /\ steps_between_waypoints' = 0
  /\ joint_limits' = <<>>
  /\ obstacles' = <<>>
  /\ d_min' = 0
  /\ opti' = EmptyNLP
  /\ solveCount' = 0
  /\ optimized_q' = <<>>
  /\ result' = <<>>
  /\ printed' = <<>>
  /\ err' = NoErr
  /\ earlier' = TRUE
  /\ UNCHANGED outsidePlanner

Next ==
  \/ optimize_from_waypoints_deg
  \/ call_setup_optimization
  \/ setup_optimization
  \/ solve_succeeds
  \/ solve_fails
  \/ print_and_return
  \/ call_ends

Spec == Init /\ [][Next]_vars

(***************************************************************************)
(* The clearance expression on its own                                     *)
(*                                                                         *)
(* The expression of lines 107-112 is evaluated at points around and in    *)
(* the fixture box.                                                        *)
(***************************************************************************)
\* How far beyond the faces the probe points lie (1e-4 m).
ProbeReach == 600

\* Coordinates probed on an axis whose box faces are lo and hi.
ProbeAxis(lo, hi) ==
  {lo - ProbeReach, lo - 1, lo, (lo + hi) \div 2, hi, hi + 1, hi + ProbeReach}

ProbePoints ==
  {<<x, y, z>> : x \in ProbeAxis(FixtureBox[1], FixtureBox[2]),
                 y \in ProbeAxis(FixtureBox[3], FixtureBox[4]),
                 z \in ProbeAxis(FixtureBox[5], FixtureBox[6])}

\* Positive clearances: the default and the resolution of the lengths.
ClearanceChoices == {DefaultDMin, 1}

ClearanceInit ==
  /\ PlannerIdle
  /\ ExecIdle
  /\ GuiStart
  /\ c_pc = "input"
  /\ p_ee \in ProbePoints
  /\ c_obs = FixtureBox
  /\ c_d_min \in ClearanceChoices
  /\ d_axis = <<>>
  /\ c_dist_sq = 0
  /\ c_holds = FALSE

\* dx, dy, dz, outside_dist_sq and the posted comparison at one point.
evaluate_clearance ==
  /\ c_pc = "input"
  /\ d_axis' = <<outside_axis(c_obs[1], c_obs[2], p_ee[1]),
                 outside_axis(c_obs[3], c_obs[4], p_ee[2]),
                 outside_axis(c_obs[5], c_obs[6], p_ee[3])>>
  /\ c_dist_sq' = outside_dist_sq(p_ee, c_obs)
  /\ c_holds' = (outside_dist_sq(p_ee, c_obs) >= c_d_min * c_d_min)
  /\ c_pc' = "evaluated"
  /\ UNCHANGED <<p_ee, c_obs, c_d_min>>
  /\ UNCHANGED outsideClearance

ClearanceNext == evaluate_clearance

ClearanceSpec == ClearanceInit /\ [][ClearanceNext]_vars

(***************************************************************************)
(* RobotExecuterV1_3: executing a trajectory                               *)
(*                                                                         *)
(* The main thread of the call and, with logging, the thread running       *)
(* continuous_logging interleave step by step.  con.receive() hands the    *)
(* caller the robot's present joint state (state TRUE) or nothing (state   *)
(* FALSE); the robot moves on its own.  Its angles are in 1e-4 rad.        *)
(***************************************************************************)
\* Longest trajectory executed.
MaxCols == 2

\* Data rows counted in the log; later rows are written but not counted.
MaxLogRows == 2

\* tol=0.5 degrees, in 0.01 degrees
TolDeg == 50

\* Columns of the executed trajectories.
ExecCols == {ZeroDeg, A90Deg}

\* Joint states the robot reports: at a column, and with joint 6 just within
\* and just beyond the tolerance of it.
RobotOffsets == {0, 80, 90}

RobotStates ==
  {[np_radians(c) EXCEPT ![6] = @ + o] : c \in ExecCols, o \in RobotOffsets}

\* Slip: np.any instead of np.all.
within_tol_any(actual, q_rad) ==
  \E j \in 1..6 : Abs(actual[j] - q_rad[j]) < deg2rad(TolDeg)

\* Slip: equality with the target instead of a tolerance.
within_tol_exact(actual, q_rad) ==
  \A j \in 1..6 : actual[j] = q_rad[j]

\* np.all(np.abs(actual - q_rad) < np.radians(tol))
within_tol(actual, q_rad) ==
  \A j \in 1..6 : Abs(actual[j] - q_rad[j]) < deg2rad(TolDeg)

\* f"{file_prefix}_{int(time.time())}.csv"
filename == "log.csv"

NumCols == Len(trajectory_deg)

\* Entry with the arguments; the log file is opened and its header written.
execute_trajectory_with_logging ==
  /\ x_pc = "idle"
  /\ trajectory_deg' \in SeqsUpTo(ExecCols, MaxCols)
  /\ actual_q' \in RobotStates
  /\ with_logging' = TRUE
  /\ csv_file' = "open"
  /\ x_pc' = "connect"
  /\ UNCHANGED <<x_i, sent, reached_at, con, logging_active, t_pc, csv_rows, x_ret, x_err>>
  /\ UNCHANGED outsideExec

execute_trajectory_without_logging ==
  /\ x_pc = "idle"
  /\ trajectory_deg' \in SeqsUpTo(ExecCols, MaxCols)
  /\ actual_q' \in RobotStates
  /\ with_logging' = FALSE
  /\ x_pc' = "connect"
  /\ UNCHANGED <<x_i, sent, reached_at, con, logging_active, t_pc, csv_file, csv_rows, x_ret, x_err>>
  /\ UNCHANGED outsideExec

\* con.connect() ... con.send_start() and the initial con.receive().
rtde_connect ==
  /\ x_pc = "connect"
  /\ con' = "started"
  /\ x_pc' = IF with_logging THEN "start_thread" ELSE "send"
  /\ UNCHANGED <<with_logging, trajectory_deg, x_i, sent, reached_at, actual_q,
                 logging_active, t_pc, csv_file, csv_rows, x_ret, x_err>>
  /\ UNCHANGED outsideExec

\* logging_active = True; thread.start()
start_logging_thread ==
  /\ x_pc = "start_thread"
  /\ logging_active' = TRUE
  /\ t_pc' = "check"
  /\ x_pc' = "send"
  /\ UNCHANGED <<with_logging, trajectory_deg, x_i, sent, reached_at, actual_q, con,
                 csv_file, csv_rows, x_ret, x_err>>
  /\ UNCHANGED outsideExec

\* while logging_active:
logging_check ==
  /\ t_pc = "check"
  /\ t_pc' = IF logging_active THEN "receive" ELSE "finished"
  /\ UNCHANGED <<x_pc, with_logging, trajectory_deg, x_i, sent, reached_at, actual_q, con,
                 logging_active, csv_file, csv_rows, x_ret, x_err>>
  /\ UNCHANGED outsideExec

\* state = con.receive(); if state: csv_writer.writerow(row).  Writing to a
\* closed file raises ValueError and ends the thread.
logging_receive ==
  /\ t_pc = "receive"
  /\ \E state \in BOOLEAN :
       IF ~state
         THEN /\ t_pc' = "check"
              /\ csv_rows' = csv_rows
         ELSE IF csv_file = "open"
                THEN /\ t_pc' = "check"
                     /\ csv_rows' = IF csv_rows < MaxLogRows THEN csv_rows + 1 ELSE csv_rows
                ELSE /\ t_pc' = "died"
                     /\ csv_rows' = csv_rows
  /\ UNCHANGED <<x_pc, with_logging, trajectory_deg, x_i, sent, reached_at, actual_q, con,
                 logging_active, csv_file, x_ret, x_err>>
  /\ UNCHANGED outsideExec

\* send_movej(q_deg) of the loop: a new socket to port 30002 per command;
\* sock.connect may raise, and the exception leaves the call.
send_movej ==
  /\ x_pc = "send"
  /\ \/ /\ sent' = Append(sent, np_radians(trajectory_deg[x_i + 1]))
        /\ x_pc' = "wait"
        /\ x_err' = x_err
     \/ /\ sent' = sent
        /\ x_pc' = "raised"
        /\ x_err' = "ConnectionRefusedError"
  /\ UNCHANGED <<with_logging, trajectory_deg, x_i, reached_at, actual_q, con,
                 logging_active, t_pc, csv_file, csv_rows, x_ret>>
  /\ UNCHANGED outsideExec

\* One round of wait_until_reached(q_deg): receive, compare, break or sleep.
\* After the last column the loop ends.
wait_until_reached ==
  /\ x_pc = "wait"
  /\ \E state \in BOOLEAN :
       IF state /\ within_tol(actual_q, np_radians(trajectory_deg[x_i + 1]))
         THEN /\ reached_at' = Append(reached_at, actual_q)
              /\ x_i' = x_i + 1
              /\ x_pc' = IF x_i + 1 < NumCols THEN "send"
                         ELSE IF with_logging THEN "stop" ELSE "pause"
         ELSE UNCHANGED <<reached_at, x_i, x_pc>>
  /\ UNCHANGED <<with_logging, trajectory_deg, sent, actual_q, con,
                 logging_active, t_pc, csv_file, csv_rows, x_ret, x_err>>
  /\ UNCHANGED outsideExec

\* logging_active = False
stop_logging ==
  /\ x_pc = "stop"
  /\ logging_active' = FALSE
  /\ x_pc' = "join"
  /\ UNCHANGED <<with_logging, trajectory_deg, x_i, sent, reached_at, actual_q, con,
                 t_pc, csv_file, csv_rows, x_ret, x_err>>
  /\ UNCHANGED outsideExec

\* Slip: the thread is not waited for.
thread_join_nowait ==
  /\ x_pc = "join"
  /\ x_pc' = "pause"
  /\ UNCHANGED <<with_logging, trajectory_deg, x_i, sent, reached_at, actual_q, con,
                 logging_active, t_pc, csv_file, csv_rows, x_ret, x_err>>
  /\ UNCHANGED outsideExec

\* thread.join() returns once continuous_logging has ended.
thread_join ==
  /\ x_pc = "join"
  /\ t_pc \in {"finished", "died"}
  /\ x_pc' = "pause"
  /\ UNCHANGED <<with_logging, trajectory_deg, x_i, sent, reached_at, actual_q, con,
                 logging_active, t_pc, csv_file, csv_rows, x_ret, x_err>>
  /\ UNCHANGED outsideExec

\* con.send_pause(); con.disconnect(); without logging the call returns None.
pause_disconnect ==
  /\ x_pc = "pause"
  /\ con' = "disconnected"
  /\ x_pc' = IF with_logging THEN "close" ELSE "done"
  /\ UNCHANGED <<with_logging, trajectory_deg, x_i, sent, reached_at, actual_q,
                 logging_active, t_pc, csv_file, csv_rows, x_ret, x_err>>
  /\ UNCHANGED outsideExec

\* csv_file.close(); return filename
close_and_return ==
  /\ x_pc = "close"
  /\ csv_file' = "closed"
  /\ x_ret' = filename
  /\ x_pc' = "done"
  /\ UNCHANGED <<with_logging, trajectory_deg, x_i, sent, reached_at, actual_q, con,
                 logging_active, t_pc, csv_rows, x_err>>
  /\ UNCHANGED outsideExec

\* The robot's joints change while the RTDE stream reports them.
robot_moves ==
  /\ con = "started"
  /\ actual_q' \in RobotStates \ {actual_q}
  /\ UNCHANGED <<x_pc, with_logging, trajectory_deg, x_i, sent, reached_at, con,
                 logging_active, t_pc, csv_file, csv_rows, x_ret, x_err>>
  /\ UNCHANGED outsideExec

ExecNext ==
  \/ execute_trajectory_with_logging
  \/ execute_trajectory_without_logging
  \/ rtde_connect
  \/ start_logging_thread
  \/ logging_check
  \/ logging_receive
  \/ send_movej
  \/ wait_until_reached
  \/ stop_logging
  \/ thread_join
  \/ pause_disconnect
  \/ close_and_return
  \/ robot_moves

ExecSpec == Init /\ [][ExecNext]_vars

\* The round of wait_until_reached that breaks out of the loop.
arrival_seen == wait_until_reached /\ x_i' = x_i + 1

\* Both threads keep running and con.receive() returns at the rate of the
\* RTDE stream; a state within tolerance that the robot keeps reporting is
\* eventually the one the waiting loop receives.
ExecFairness ==
  /\ WF_vars(rtde_connect)
  /\ WF_vars(start_logging_thread)
  /\ WF_vars(send_movej)
  /\ WF_vars(wait_until_reached)
  /\ SF_vars(arrival_seen)
  /\ WF_vars(stop_logging)
  /\ WF_vars(thread_join)
  /\ WF_vars(pause_disconnect)
  /\ WF_vars(close_and_return)
  /\ WF_vars(logging_check)
  /\ WF_vars(logging_receive)

ExecFairSpec == Init /\ [][ExecNext]_vars /\ ExecFairness

(***************************************************************************)
(* main.py: the GUI                                                        *)
(*                                                                         *)
(* One action per slot.  A slot runs to its end before the next event is   *)
(* handled; send_to_robot stays inside the executor until that returns or  *)
(* raises.  A cell text is <<sign, whole, hundredths>>; the sign "?" marks *)
(* a text float() cannot read.                                             *)
(***************************************************************************)
\* Most rows of the waypoint table.
MaxRows == 2

\* f"{v:.2f}" for v in 0.01 degrees
format_2f(v) == <<IF v < 0 THEN "-" ELSE "", Abs(v) \div 100, Abs(v) % 100>>

\* float(item.text())
float_text(t) == IF t[1] = "-" THEN -(t[2] * 100 + t[3]) ELSE t[2] * 100 + t[3]

IsNumber(t) == t[1] # "?"

\* Waypoints the operator types in.
GuiRowValues == {ZeroDeg, A90Deg, OverLimitDeg}

BadRow == [j \in 1..6 |-> IF j = 1 THEN <<"?", 0, 0>> ELSE <<"", 0, 0>>]

GuiRows == {[j \in 1..6 |-> format_2f(w[j])] : w \in GuiRowValues} \cup {BadRow}

\* The rows of a table as numbers.
read_table(table) == [i \in 1..Len(table) |-> [j \in 1..6 |-> float_text(table[i][j])]]

\* Slip: range(rows - 1); the last time step is not shown.
show_trajectory_skip_last(trajectory) ==
  [i \in 1..(Len(trajectory) - 1) |-> [j \in 1..6 |-> format_2f(trajectory[i][j])]]

\* setRowCount(rows) and one item f"{trajectory_deg[j, i]:.2f}" per cell.
show_trajectory(trajectory) ==
  [i \in 1..Len(trajectory) |-> [j \in 1..6 |-> format_2f(trajectory[i][j])]]

\* What tp.optimize_from_waypoints_deg(waypoints) can return; it can also
\* raise, and has to when this set is empty.
OptimizeReturns(wd) ==
  LET wps == [i \in 1..Len(wd) |-> np_radians(wd[i])]
      nlp == setup_nlp(wps, DefaultSteps, DefaultLimits, <<FixtureBox>>, DefaultDMin)
  IN  IF setup_raises(wps) \/ nlp.N = 1
        THEN {}
        ELSE {np_rad2deg(q) : q \in SolverOutcomes(nlp)}

\* The same, computed once for the tables of the GUI.
OptimizeReturnsOf == [wd \in SeqsUpTo(GuiRowValues, MaxRows) |-> OptimizeReturns(wd)]

\* socket.create_connection((robot_ip, 30002), timeout=5) ends in one of these.
ConnectionAttempts == {"connected", "timeout", "refused", "unreachable"}

\* def check_connection(robot_ip="198.168.0.102")
check_connection_robot_ip == <<198, 168, 0, 102>>

\* robot_ip="192.168.0.102" of execute_trajectory_with_logging,
\* execute_trajectory_without_logging and get_actual_q
execute_robot_ip == <<192, 168, 0, 102>>

\* Called without arguments, as the GUI does.
\* try: create_connection((robot_ip, 30002)); close; return True
\* except (socket.timeout, ConnectionRefusedError): return False
\* Any other OSError (no route to host, network unreachable) is not caught.
check_connection(attempt) ==
  LET robot_ip == check_connection_robot_ip
  IN  IF attempt = "connected"
        THEN [robot_ip |-> robot_ip, attempt |-> attempt,
              returned |-> TRUE, value |-> TRUE, raised |-> None]
        ELSE IF attempt \in {"timeout", "refused"}
          THEN [robot_ip |-> robot_ip, attempt |-> attempt,
                returned |-> TRUE, value |-> FALSE, raised |-> None]
          ELSE [robot_ip |-> robot_ip, attempt |-> attempt,
                returned |-> FALSE, value |-> FALSE, raised |-> "OSError"]

\* No modal box is open and no slot is running.
Free == ~popup /\ g_pc = "idle"

button1_clicked ==
  /\ Free /\ window = 0
  /\ window' = 1
  /\ g_event' = <<"button1_clicked", "navigated">>
  /\ UNCHANGED <<waypointsTable, trajectoryTable, lastOptimized, timerPending, popup, g_pc,
                 handed, commanded_ip, last_check>>
  /\ UNCHANGED outsideGui

button2_clicked ==
  /\ Free /\ window = 0
  /\ window' = 5
  /\ g_event' = <<"button2_clicked", "navigated">>
  /\ UNCHANGED <<waypointsTable, trajectoryTable, lastOptimized, timerPending, popup, g_pc,
                 handed, commanded_ip, last_check>>
  /\ UNCHANGED outsideGui

HelpWindow_go_back ==
  /\ Free /\ window = 5
  /\ window' = 0
  /\ g_event' = <<"HelpWindow.go_back", "navigated">>
  /\ UNCHANGED <<waypointsTable, trajectoryTable, lastOptimized, timerPending, popup, g_pc,
                 handed, commanded_ip, last_check>>
  /\ UNCHANGED outsideGui

WaypointWindow_go_back ==
  /\ Free /\ window = 1
  /\ window' = 0
  /\ g_event' = <<"WaypointWindow.go_back", "navigated">>
  /\ UNCHANGED <<waypointsTable, trajectoryTable, lastOptimized, timerPending, popup, g_pc,
                 handed, commanded_ip, last_check>>
  /\ UNCHANGED outsideGui

TrajectoryWindow_go_back ==
  /\ Free /\ window = 2
  /\ window' = 1
  /\ g_event' = <<"TrajectoryWindow.go_back", "navigated">>
  /\ UNCHANGED <<waypointsTable, trajectoryTable, lastOptimized, timerPending, popup, g_pc,
                 handed, commanded_ip, last_check>>
  /\ UNCHANGED outsideGui

ResultsWindow_go_back ==
  /\ Free /\ window = 4
  /\ window' = 2
  /\ g_event' = <<"ResultsWindow.go_back", "navigated">>
  /\ UNCHANGED <<waypointsTable, trajectoryTable, lastOptimized, timerPending, popup, g_pc,
                 handed, commanded_ip, last_check>>
  /\ UNCHANGED outsideGui

\* insertRow at the end with the texts of the six input fields.
add_waypoint ==
  /\ Free /\ window = 1
  /\ Len(waypointsTable) < MaxRows
  /\ \E row \in GuiRows : waypointsTable' = Append(waypointsTable, row)
  /\ g_event' = <<"add_waypoint", "edited">>
  /\ UNCHANGED <<window, trajectoryTable, lastOptimized, timerPending, popup, g_pc,
                 handed, commanded_ip, last_check>>
  /\ UNCHANGED outsideGui

\* removeRow(currentRow()) when a row is selected.
delete_selected_row ==
  /\ Free /\ window = 1
  /\ \E selected_row \in 1..Len(waypointsTable) :
       waypointsTable' = [i \in 1..(Len(waypointsTable) - 1) |->
                            IF i < selected_row THEN waypointsTable[i] ELSE waypointsTable[i + 1]]
  /\ g_event' = <<"delete_selected_row", "edited">>
  /\ UNCHANGED <<window, trajectoryTable, lastOptimized, timerPending, popup, g_pc,
                 handed, commanded_ip, last_check>>
  /\ UNCHANGED outsideGui

\* Slip: the trajectory window is emptied and shown when the optimizer raised.
optimization_error_shown ==
  /\ g_event' = <<"send_data_foward", "optimization error">>
  /\ trajectoryTable' = <<>>
  /\ window' = 2
  /\ UNCHANGED lastOptimized

\* except Exception as e: print("Optimization error:", e)
optimization_error ==
  /\ g_event' = <<"send_data_foward", "optimization error">>
  /\ UNCHANGED <<window, trajectoryTable, lastOptimized>>

\* The Optimize button.  float() runs before the try block, so a text it
\* cannot read ends the slot with ValueError; fewer than two rows give the
\* warning; otherwise the optimizer either returns and the trajectory window
\* is filled and shown, or raises and the error is printed.
send_data_foward ==
  /\ Free /\ window = 1
  /\ IF \E i \in 1..Len(waypointsTable) : \E j \in 1..6 : ~IsNumber(waypointsTable[i][j])
       THEN /\ g_event' = <<"send_data_foward", "ValueError">>
            /\ UNCHANGED <<window, trajectoryTable, lastOptimized>>
       ELSE IF Len(waypointsTable) < 2
         THEN /\ g_event' = <<"send_data_foward", "warning">>
              /\ UNCHANGED <<window, trajectoryTable, lastOptimized>>
         ELSE \/ \E optimized \in OptimizeReturnsOf[read_table(waypointsTable)] :
                   /\ trajectoryTable' = show_trajectory(optimized)
                   /\ lastOptimized' = optimized
                   /\ window' = 2
                   /\ g_event' = <<"send_data_foward", "optimized">>
              \/ optimization_error
  /\ UNCHANGED <<waypointsTable, timerPending, popup, g_pc, handed, commanded_ip, last_check>>
  /\ UNCHANGED outsideGui

\* setCurrentIndex(3); QTimer.singleShot(100, self.send_to_robot)
load_robot ==
  /\ Free /\ window = 2
  /\ window' = 3
  /\ timerPending' = TRUE
  /\ g_event' = <<"load_robot", "loading">>
  /\ UNCHANGED <<waypointsTable, trajectoryTable, lastOptimized, popup, g_pc, handed, commanded_ip, last_check>>
  /\ UNCHANGED outsideGui

\* check_connection, then get_actual_q and "if actual_q != q_home", which
\* for the array get_actual_q returns raises ValueError: nothing reaches the
\* executor.
move_home ==
  /\ Free /\ window = 2
  /\ \E attempt \in ConnectionAttempts :
       LET c == check_connection(attempt)
       IN  /\ last_check' = c
           /\ IF ~c.returned
                THEN /\ g_event' = <<"move_home", c.raised>>
                     /\ popup' = popup
                ELSE IF c.value = FALSE
                  THEN /\ g_event' = <<"move_home", "popup">>
                       /\ popup' = TRUE
                  ELSE /\ g_event' = <<"move_home", "ValueError">>
                       /\ popup' = popup
  /\ UNCHANGED <<window, waypointsTable, trajectoryTable, lastOptimized, timerPending, g_pc, handed, commanded_ip>>
  /\ UNCHANGED outsideGui

\* As move_home, with row 0 of the trajectory table as the target.
move_first_position ==
  /\ Free /\ window = 2
  /\ \E attempt \in ConnectionAttempts :
       LET c == check_connection(attempt)
       IN  /\ last_check' = c
           /\ IF ~c.returned
                THEN /\ g_event' = <<"move_first_position", c.raised>>
                     /\ popup' = popup
                ELSE IF c.value = FALSE
                  THEN /\ g_event' = <<"move_first_position", "popup">>
                       /\ popup' = TRUE
                  ELSE /\ g_event' = <<"move_first_position", "ValueError">>
                       /\ popup' = popup
  /\ UNCHANGED <<window, waypointsTable, trajectoryTable, lastOptimized, timerPending, g_pc, handed, commanded_ip>>
  /\ UNCHANGED outsideGui

\* The timer fires.  check_connection is called outside the try block; when
\* it returns True the trajectory is read back from the table and given to
\* the executor.
send_to_robot ==
  /\ Free /\ timerPending
  /\ timerPending' = FALSE
  /\ \E attempt \in ConnectionAttempts :
       LET c == check_connection(attempt)
       IN  /\ last_check' = c
           /\ IF ~c.returned
                THEN /\ g_event' = <<"send_to_robot", c.raised>>
                     /\ UNCHANGED <<popup, g_pc, handed, commanded_ip>>
                ELSE IF c.value = FALSE
                  THEN /\ g_event' = <<"send_to_robot", "popup">>
                       /\ popup' = TRUE
                       /\ UNCHANGED <<g_pc, handed, commanded_ip>>
                  ELSE /\ g_event' = <<"send_to_robot", "handed">>
                       /\ handed' = read_table(trajectoryTable)
                       /\ commanded_ip' = execute_robot_ip
                       /\ g_pc' = "executing"
                       /\ popup' = popup
  /\ UNCHANGED <<window, waypointsTable, trajectoryTable, lastOptimized>>
  /\ UNCHANGED outsideGui

\* The executor returns; self.stack.setCurrentIndex(4)
execution_returns ==
  /\ g_pc = "executing"
  /\ g_pc' = "idle"
  /\ handed' = <<>>
  /\ commanded_ip' = <<>>
  /\ window' = 4
  /\ g_event' = <<"send_to_robot", "executed">>
  /\ UNCHANGED <<waypointsTable, trajectoryTable, lastOptimized, timerPending, popup, last_check>>
  /\ UNCHANGED outsideGui

\* except Exception as e: print("Error during execution:", e)
execution_raises ==
  /\ g_pc = "executing"
  /\ g_pc' = "idle"
  /\ handed' = <<>>
  /\ commanded_ip' = <<>>
  /\ g_event' = <<"send_to_robot", "execution error">>
  /\ UNCHANGED <<window, waypointsTable, trajectoryTable, lastOptimized, timerPending, popup,
                 last_check>>
  /\ UNCHANGED outsideGui

\* OK in the message box of TrajectoryWindow.show_popup: setCurrentIndex(2)
show_popup_ok ==
  /\ popup
  /\ popup' = FALSE
  /\ window' = 2
  /\ g_event' = <<"show_popup", "navigated">>
  /\ UNCHANGED <<waypointsTable, trajectoryTable, lastOptimized, timerPending, g_pc, handed, commanded_ip,
                 last_check>>
  /\ UNCHANGED outsideGui

GuiNext ==
  \/ button1_clicked
  \/ button2_clicked
  \/ HelpWindow_go_back
  \/ WaypointWindow_go_back
  \/ TrajectoryWindow_go_back
  \/ ResultsWindow_go_back
  \/ add_waypoint
  \/ delete_selected_row
  \/ send_data_foward
  \/ load_robot
  \/ move_home
  \/ move_first_position
  \/ send_to_robot
  \/ execution_returns
  \/ execution_raises
  \/ show_popup_ok

GuiSpec == Init /\ [][GuiNext]_vars

TypeOK ==
  /\ pc \in {"idle", "setup", "solve", "print", "returned", "raised"}
  /\ solveCount \in 0..1

(***************************************************************************)
(* Properties                                                              *)
(***************************************************************************)
\* A request the planner is specified for: at least 2 waypoints of 6 joints
\* each and a positive step count.
ValidRequest ==
  /\ Len(waypoints) >= 2
  /\ \A i \in 1..Len(waypoints) : Len(waypoints[i]) = 6
  /\ steps_between_waypoints >= 1

Built == pc \in {"solve", "print", "returned"}

ExpectedN == (Len(waypoints) - 1) * steps_between_waypoints + 1

\* C1: for a valid request, the column of the returned trajectory at index
\* i * stepsBetweenWaypoints equals input waypoint i in every component (to
\* the resolution of the grid), for every waypoint index i.
C1_PinnedColumnsEqualWaypoints ==
  (pc = "returned" /\ ValidRequest) =>
    \A i \in 0..(Len(waypoints) - 1) :
      LET col == result[i * steps_between_waypoints + 1]
      IN  /\ col = [j \in 1..6 |-> rad2deg(waypoints[i + 1][j])]
          /\ entry = "optimize_from_waypoints_deg" => col = waypoints_deg[i + 1]

C1_Witness ==
  /\ pc = "returned"
  /\ ValidRequest
  /\ entry = "optimize_from_waypoints_deg"
  /\ waypoints_deg = <<ZeroDeg, A90Deg>>
  /\ result[1] = ZeroDeg
  /\ result[4] = A90Deg

\* C2: for a valid request, the number of samples N of the decision matrix
\* and of the returned trajectory is (numWaypoints - 1) * stepsBetweenWaypoints + 1.
C2_SampleCount ==
  ValidRequest =>
    /\ Built => opti.N = ExpectedN
    /\ pc \in {"print", "returned"} => Len(optimized_q) = ExpectedN
    /\ pc = "returned" => Len(result) = ExpectedN

C2_Witness ==
  /\ pc = "returned"
  /\ ValidRequest
  /\ Len(waypoints) = 2
  /\ steps_between_waypoints = 2
  /\ Len(result) = 3

\* C3: a bound constraint is posted for each of the 6 joints over all N
\* columns, and in every returned solution every joint value at every sample
\* lies within that joint's [min, max] limit.
C3_JointLimits ==
  /\ Built =>
       \A j \in 0..5 : \E b \in opti.bounds :
         /\ b.j = j
         /\ b.cols = 0..(opti.N - 1)
         /\ b.lo = joint_limits[j + 1][1]
         /\ b.hi = joint_limits[j + 1][2]
  /\ pc = "returned" =>
       \A k \in 1..Len(result) : \A j \in 1..6 :
         /\ joint_limits[j][1] <= optimized_q[k][j]
         /\ optimized_q[k][j] <= joint_limits[j][2]
         /\ rad2deg(joint_limits[j][1]) <= result[k][j]
         /\ result[k][j] <= rad2deg(joint_limits[j][2])

C3_Witness ==
  /\ pc = "returned"
  /\ Cardinality(opti.bounds) = 6
  /\ \E k \in 1..Len(result) : result[k] = A90Deg

\* C4: one clearance constraint is posted for each (sample, obstacle) pair,
\* and in every returned solution the end-effector position recomputed by
\* forward kinematics at every sample is at least minClearance away from
\* every obstacle box.
C4_Clearance ==
  /\ Built =>
       /\ Cardinality(opti.clear) = opti.N * Len(obstacles)
       /\ \A k \in 0..(opti.N - 1) : \A o \in 1..Len(obstacles) :
            [k |-> k, o |-> o, box |-> obstacles[o], d_min |-> d_min] \in opti.clear
  /\ pc = "returned" =>
       \A k \in 1..Len(result) : \A o \in 1..Len(obstacles) :
         outside_dist_sq(FKOf[np_radians(result[k])], obstacles[o]) >= d_min * d_min

C4_Witness ==
  /\ pc = "returned"
  /\ obstacles = <<FixtureBox>>
  /\ Len(result) >= 2
  /\ Cardinality(opti.clear) = Len(result)

\* C5: optimize_from_waypoints_deg given a single waypoint fails with a
\* FormatError and no solve is attempted.
C5_SingleWaypointFormatError ==
  (entry = "optimize_from_waypoints_deg" /\ Len(waypoints_deg) < 2) =>
    /\ solveCount = 0
    /\ pc \in {"returned", "raised"} => (pc = "raised" /\ err.kind = "FormatError")

\* C6: a request containing a waypoint whose dimensionality is not 6 fails
\* with a FormatError before any objective or constraint is added to the NLP.
C6_BadDimensionFailsFast ==
  (pc # "idle" /\ \E i \in 1..Len(waypoints) : Len(waypoints[i]) # 6) =>
    /\ pc \in {"setup", "raised"}
    /\ pc = "raised" =>
         /\ err.kind = "FormatError"
         /\ opti.f = None
         /\ opti.bounds = {}
         /\ opti.pins = {}
         /\ opti.clear = {}

\* C7: a request with a non-positive stepsBetweenWaypoints is rejected with a
\* FormatError before any numerical work; it is never turned into an NLP.
C7_NonPositiveStepsRejected ==
  (pc # "idle" /\ steps_between_waypoints <= 0) =>
    /\ pc \in {"setup", "raised"}
    /\ opti = EmptyNLP
    /\ solveCount = 0
    /\ pc = "raised" => err.kind = "FormatError"

\* C8: a solver failure reaches the caller as one of two distinct error
\* kinds: InfeasibleProblem when no point satisfies the constraints,
\* ConvergenceFailure when the iteration budget is exhausted.
C8_DistinctFailureKinds ==
  (pc = "raised" /\ err.origin = "opti.solve") =>
    /\ err.status = "Infeasible_Problem_Detected" => err.kind = "InfeasibleProblem"
    /\ err.status = "Maximum_Iterations_Exceeded" => err.kind = "ConvergenceFailure"

\* C9: one planning call invokes the backend solver at most once; when the
\* solve fails there is no retry and no relaxation of the problem, the failure
\* leaves the call at once, and no trajectory is returned or logged.
C9_SingleSolveNoRetry ==
  /\ solveCount <= 1
  /\ pc \in {"print", "returned"} => solveCount = 1
  /\ (pc = "raised" /\ err.origin = "opti.solve") =>
       /\ solveCount = 1
       /\ opti = setup_nlp(waypoints, steps_between_waypoints, joint_limits, obstacles, d_min)
       /\ optimized_q = <<>>
       /\ result = <<>>
       /\ printed = <<>>

C9_Witness ==
  /\ pc = "raised"
  /\ err.origin = "opti.solve"
  /\ solveCount = 1
  /\ ValidRequest

\* Strictly inside the box on all three axes.
StrictlyInside(p, box) ==
  /\ box[1] < p[1] /\ p[1] < box[2]
  /\ box[3] < p[2] /\ p[2] < box[4]
  /\ box[5] < p[3] /\ p[3] < box[6]

HasWaypointInsideObstacle ==
  \E i \in 1..Len(waypoints) : \E o \in 1..Len(obstacles) :
    /\ Len(waypoints[i]) = 6
    /\ StrictlyInside(FKOf[waypoints[i]], obstacles[o])

\* C10: if a requested waypoint's forward-kinematics position lies strictly
\* inside a configured obstacle box, the solve never succeeds and nothing is
\* returned: the call ends in an error, which for a request of 6-joint
\* waypoints is the solver's failure (infeasible or non-convergence).
C10_WaypointInsideObstacleFails ==
  HasWaypointInsideObstacle =>
    /\ pc \notin {"print", "returned"}
    /\ optimized_q = <<>>
    /\ result = <<>>
    /\ (pc = "raised" /\ \A i \in 1..Len(waypoints) : Len(waypoints[i]) = 6) =>
         /\ err.origin = "opti.solve"
         /\ err.status \in SolverFailures

C10_Witness ==
  /\ HasWaypointInsideObstacle
  /\ pc = "raised"
  /\ err.origin = "opti.solve"
  /\ Len(waypoints) >= 2
  /\ \A i \in 1..Len(waypoints) : Len(waypoints[i]) = 6

NonDecreasing(a, b) == \A j \in 1..6 : a[j] <= b[j]

IsScenarioA ==
  /\ entry = "optimize_from_waypoints_deg"
  /\ waypoints_deg = <<ZeroDeg, A90Deg>>

\* C15: Scenario A.  For waypoints [0]*6 and [90]*6 with 3 steps between
\* waypoints, N = 4, column 0 is [0]*6, column 3 is [90]*6, and every joint is
\* non-decreasing from column to column and stays within +/-pi rad.
C15_ScenarioA ==
  IsScenarioA =>
    /\ Built => opti.N = 4
    /\ pc = "returned" =>
         /\ Len(result) = 4
         /\ result[1] = ZeroDeg
         /\ result[4] = A90Deg
         /\ \A k \in 1..3 : NonDecreasing(result[k], result[k + 1])
         /\ \A k \in 1..4 : \A j \in 1..6 :
              /\ -PI <= deg2rad(result[k][j])
              /\ deg2rad(result[k][j]) <= PI

C15_Witness ==
  /\ IsScenarioA
  /\ pc = "returned"
  /\ result[2] # result[1]
  /\ result[3] # result[4]

\* C16: when zero obstacles are configured no clearance constraint is posted
\* for any sample; the NLP holds only the smoothness objective, the six
\* joint-limit bounds and one equality per waypoint.
C16_NoObstaclesNoClearance ==
  (Built /\ obstacles = <<>>) =>
    /\ opti.clear = {}
    /\ opti.f = "sumsqr_dq"
    /\ Cardinality(opti.bounds) = 6
    /\ Cardinality(opti.pins) = Len(waypoints)

\* Without obstacles a trajectory through the fixture is returned.
C16_Witness ==
  /\ pc = "returned"
  /\ obstacles = <<>>
  /\ opti.clear = {}
  /\ \E k \in 1..Len(result) : result[k] = InsideDeg

\* Sum over the 6 joints of (b[j] - a[j])^2 in squared grid steps, for the
\* grid points.
SquaredStep ==
  [a \in SolverGrid, b \in SolverGrid |->
     SumSeq([j \in 1..6 |-> ((b[j] - a[j]) \div GridRad) * ((b[j] - a[j]) \div GridRad)])]

\* Sum over k = 0..N-2 and the 6 joints of (q[j,k+1] - q[j,k])^2.
SumSquaredSteps(q) == SumSeq([k \in 1..(Len(q) - 1) |-> SquaredStep[q[k], q[k + 1]]])

\* C19: the only optimization criterion is the sum over k = 0..N-2 and the 6
\* joints of (q[j,k+1] - q[j,k])^2: it is the objective of every problem, a
\* returned solution has the least such sum among the feasible points, and
\* for N = 1 the sum is empty and the objective is 0.
C19_SmoothnessObjective ==
  /\ Built => opti.f = "sumsqr_dq"
  /\ pc = "print" =>
       /\ \A r \in FeasibleSet(opti) : SumSquaredSteps(optimized_q) <= SumSquaredSteps(r)
       /\ opti.N = 1 => (sumsqr_dq(optimized_q) = 0 /\ objective(optimized_q) = 0)

C19_Witness ==
  /\ pc = "print"
  /\ SumSquaredSteps(optimized_q) > 0
  /\ \E r \in FeasibleSet(opti) : SumSquaredSteps(r) > SumSquaredSteps(optimized_q)

C19_WitnessSingleColumn ==
  /\ pc = "print"
  /\ opti.N = 1
  /\ Len(optimized_q) = 1

\* Column of the equality posted for waypoint i.
PinnedColumn(i) == (CHOOSE p \in opti.pins : p.i = i).idx

\* Columns strictly between the columns of waypoints i and i + 1 that no
\* waypoint is pinned to.
FreeColumnsBetween(i) ==
  {k \in 0..(opti.N - 1) :
     /\ PinnedColumn(i) < k
     /\ k < PinnedColumn(i + 1)
     /\ \A p \in opti.pins : p.idx # k}

\* C20 as stated: between the columns pinned to waypoint i and waypoint i + 1
\* there are exactly stepsBetweenWaypoints free columns.
C20_StepsFreeColumnsBetween ==
  (Built /\ ValidRequest) =>
    \A i \in 0..(Len(waypoints) - 2) :
      Cardinality(FreeColumnsBetween(i)) = steps_between_waypoints

\* C20 amended: for a positive step count the columns pinned to waypoint i
\* and waypoint i + 1 are stepsBetweenWaypoints columns apart, so there are
\* exactly stepsBetweenWaypoints - 1 free columns between them.
C20_StepsMinusOneFreeColumns ==
  (Built /\ ValidRequest) =>
    \A i \in 0..(Len(waypoints) - 2) :
      /\ PinnedColumn(i + 1) - PinnedColumn(i) = steps_between_waypoints
      /\ Cardinality(FreeColumnsBetween(i)) = steps_between_waypoints - 1

C20_Witness ==
  /\ Built
  /\ ValidRequest
  /\ steps_between_waypoints = 3
  /\ FreeColumnsBetween(0) = {1, 2}

\* On the axis of coordinate a (1..3) the point lies between the box faces.
WithinFaces(p, box, a) == box[2 * a - 1] <= p[a] /\ p[a] <= box[2 * a]

\* C14: max(boxMin - p, 0) + max(p - boxMax, 0) is 0 on every axis on which
\* the point lies within the box, so for a point inside the box all three are
\* 0 and the squared distance is 0; for minClearance > 0 a point strictly
\* inside the box violates outside_dist_sq >= minClearance^2.
C14_InsideIsViolation ==
  c_pc = "evaluated" =>
    /\ \A a \in 1..3 : WithinFaces(p_ee, c_obs, a) => d_axis[a] = 0
    /\ (StrictlyInside(p_ee, c_obs) /\ c_d_min > 0) =>
         /\ d_axis = <<0, 0, 0>>
         /\ c_dist_sq = 0
         /\ ~c_holds

C14_Witness ==
  /\ c_pc = "evaluated"
  /\ StrictlyInside(p_ee, c_obs)
  /\ c_d_min > 0
  /\ ~c_holds

\* Joint error under 0.5 degrees, angles in 1e-4 rad: e * 180 / pi < 0.5.
UnderHalfDegree(a, b) == \A j \in 1..6 : Abs(a[j] - b[j]) * HalfTurnDeg < TolDeg * PI

\* C11: the commands sent are those of columns 0, 1, ... in order, N of them
\* when the call completes, and the command for column k+1 is sent only after
\* a received robot state matched column k with every joint error under 0.5
\* degrees.
C11_OneCommandPerColumnInOrder ==
  /\ Len(sent) <= NumCols
  /\ \A k \in 1..Len(sent) : sent[k] = [j \in 1..6 |-> deg2rad(trajectory_deg[k][j])]
  /\ Len(sent) >= 2 =>
       \A k \in 1..(Len(sent) - 1) :
         /\ Len(reached_at) >= k
         /\ UnderHalfDegree(reached_at[k], sent[k])
  /\ x_pc = "done" =>
       /\ Len(sent) = NumCols
       /\ Len(reached_at) = NumCols
       /\ UnderHalfDegree(reached_at[NumCols], sent[NumCols])

C11_Witness ==
  /\ x_pc = "done"
  /\ Len(sent) = 2
  /\ sent[1] # sent[2]
  /\ reached_at[1] # sent[1]
  /\ UnderHalfDegree(reached_at[1], sent[1])

ThreadStarted == t_pc # "none"

\* C18: in execute_trajectory_with_logging the logging thread is started
\* before the first motion command, logging_active is cleared only after the
\* last column has been reached, the CSV file is closed only after the thread
\* has been joined, no row is written to a closed file, and the call returns
\* the log filename.
C18_LoggingLifecycle ==
  with_logging =>
    /\ Len(sent) >= 1 => ThreadStarted
    /\ (ThreadStarted /\ ~logging_active) => (x_i = NumCols /\ Len(reached_at) = NumCols)
    /\ csv_file = "closed" => (t_pc = "finished" /\ x_pc = "done")
    /\ t_pc # "died"
    /\ x_pc = "done" => (x_ret = filename /\ csv_file = "closed" /\ con = "disconnected")
    /\ x_pc # "done" => x_ret = None

C18_Witness ==
  /\ with_logging
  /\ x_pc = "done"
  /\ x_ret = filename
  /\ t_pc = "finished"
  /\ csv_rows >= 1
  /\ Len(sent) = 2

\* A returned trajectory: at least the columns of two waypoints, 6 joints
\* each, every joint within +/-180 degrees.
CompleteSolution(t) ==
  /\ Len(t) >= DefaultSteps + 1
  /\ \A k \in 1..Len(t) :
       /\ Len(t[k]) = 6
       /\ \A j \in 1..6 : -HalfTurnDeg <= t[k][j] /\ t[k][j] <= HalfTurnDeg

\* C12: the trajectory, loading and results windows are shown only after an
\* optimizer call has returned; the trajectory table always holds the result
\* of the most recent call that returned (and nothing before the first); and
\* what send_to_robot hands to the executor is that result, a complete
\* trajectory within the limits.
C12_OnlySuccessfulResultExecuted ==
  /\ window \in {2, 3, 4} => lastOptimized # <<>>
  /\ timerPending => window = 3
  /\ IF lastOptimized = <<>>
       THEN trajectoryTable = <<>>
       ELSE /\ read_table(trajectoryTable) = lastOptimized
            /\ CompleteSolution(lastOptimized)
  /\ (g_pc = "executing" \/ handed # <<>>) =>
       /\ g_pc = "executing"
       /\ handed = lastOptimized
       /\ CompleteSolution(handed)
       /\ last_check.value

\* The executor runs the interpolation from [0]*6 to [90]*6.
C12_Witness ==
  /\ g_pc = "executing"
  /\ window = 3
  /\ handed = <<ZeroDeg, A30Deg, A60Deg, A90Deg>>
  /\ last_check.attempt = "connected"

\* C17 as stated: whatever the outcome of the connection attempt,
\* check_connection returns a boolean, True exactly when the robot was
\* reached, and never raises.
C17_CheckConnectionAlwaysReturns ==
  last_check.attempt # None =>
    /\ last_check.returned
    /\ last_check.raised = None
    /\ last_check.value = (last_check.attempt = "connected")

\* Some joint of some requested waypoint lies outside [-pi, pi].
HasWaypointOverLimit ==
  \E i \in 1..Len(waypoints) : \E j \in 1..Len(waypoints[i]) :
    waypoints[i][j] < -PI \/ waypoints[i][j] > PI

\* C22: a waypoint with any joint outside [-180, 180] degrees contradicts the
\* joint bound of its pinned column, so the planning call never gets a
\* solution and never returns a trajectory; for a request of 6-joint
\* waypoints it ends in the failure of the solve.
C22_WaypointOverLimitFails ==
  HasWaypointOverLimit =>
    /\ pc \notin {"print", "returned"}
    /\ optimized_q = <<>>
    /\ result = <<>>
    /\ pc = "solve" => SolverOutcomes(opti) = {}
    /\ (pc = "raised" /\ \A i \in 1..Len(waypoints) : Len(waypoints[i]) = 6) =>
         /\ err.kind = "RuntimeError"
         /\ err.origin = "opti.solve"

C22_Witness ==
  /\ entry = "optimize_from_waypoints_deg"
  /\ waypoints_deg = <<ZeroDeg, OverLimitDeg>>
  /\ HasWaypointOverLimit
  /\ pc = "raised"
  /\ err.origin = "opti.solve"
  /\ solveCount = 1

\* C23: for at least 2 waypoints and a positive step count the pinned column
\* indices i * stepsBetweenWaypoints are strictly increasing in i and lie in
\* [0, N-1]; the first waypoint pins column 0 and the last pins column N-1,
\* and no two waypoints pin the same column.
C23_PinnedIndicesIncreasing ==
  (Built /\ ValidRequest) =>
    /\ \A i \in 0..(Len(waypoints) - 1) :
         /\ \E p \in opti.pins : p.i = i
         /\ PinnedColumn(i) = i * steps_between_waypoints
         /\ 0 <= PinnedColumn(i) /\ PinnedColumn(i) <= opti.N - 1
    /\ \A i \in 0..(Len(waypoints) - 2) : PinnedColumn(i) < PinnedColumn(i + 1)
    /\ PinnedColumn(0) = 0
    /\ PinnedColumn(Len(waypoints) - 1) = opti.N - 1
    /\ \A p1 \in opti.pins : \A p2 \in opti.pins : p1.idx = p2.idx => p1.i = p2.i

\* Consecutive waypoints pinned to adjacent columns.
C23_Witness ==
  /\ Built
  /\ ValidRequest
  /\ steps_between_waypoints = 1
  /\ PinnedColumn(1) = 1
  /\ opti.N = Len(waypoints)

\* The Optimize slot ran with the optimizer raising.
OptimizerRaised ==
  /\ send_data_foward
  /\ g_event' = <<"send_data_foward", "optimization error">>

\* C28: when the optimizer raises during send_data_foward the GUI stays on
\* the waypoint window, the trajectory table keeps its previous contents and
\* the waypoint table is unchanged.
C28_OptimizerErrorChangesNothing ==
  [][OptimizerRaised =>
       /\ window = 1
       /\ window' = 1
       /\ trajectoryTable' = trajectoryTable
       /\ waypointsTable' = waypointsTable
       /\ lastOptimized' = lastOptimized]_vars

\* An optimization failed with an earlier result still in the table.
C28_Witness ==
  /\ g_event = <<"send_data_foward", "optimization error">>
  /\ window = 1
  /\ trajectoryTable = show_trajectory(<<ZeroDeg, A30Deg, A60Deg, A90Deg>>)
  /\ read_table(waypointsTable) = <<A90Deg, OverLimitDeg>>

\* C21 as stated: pressing Optimize with fewer than 2 waypoint rows never
\* calls the optimizer, leaves the waypoint window and the trajectory table
\* as they are, and shows the warning.
C21_TooFewRowsOnlyWarns ==
  [][(send_data_foward /\ Len(waypointsTable) < 2) =>
       /\ g_event' = <<"send_data_foward", "warning">>
       /\ window' = 1
       /\ trajectoryTable' = trajectoryTable
       /\ lastOptimized' = lastOptimized]_vars

\* send_to_robot is over: the executor returned or raised, or
\* check_connection raised, or the message box was closed.
SendFinished ==
  \/ g_event \in {<<"send_to_robot", "executed">>,
                  <<"send_to_robot", "execution error">>,
                  <<"send_to_robot", "OSError">>}
  \/ g_event = <<"show_popup", "navigated">>

\* C27 as stated: whenever send_to_robot has finished, by success, by missing
\* connection or by an exception during execution, the current window is the
\* results window or the trajectory window.
C27_NeverLeftOnLoadingWindow ==
  SendFinished => window \in {2, 4}

\* C29 as stated: the address check_connection probed is the address the
\* executor then connects to.
C29_CheckedRobotIsCommanded ==
  g_pc = "executing" =>
    /\ last_check.value
    /\ last_check.robot_ip = commanded_ip

\* C24 as stated: the logging thread and the main thread's
\* wait_until_reached are never at con.receive() at the same time.
C24_ReceiveNotConcurrent ==
  ~(t_pc = "receive" /\ x_pc = "wait")

\* C25 as stated: on every exit of execute_trajectory_with_logging, by return
\* or by exception, the logging thread has been stopped and joined, the RTDE
\* connection is disconnected and the CSV file is closed.
C25_CleanupOnEveryExit ==
  (with_logging /\ x_pc \in {"done", "raised"}) =>
    /\ ~logging_active
    /\ t_pc = "finished"
    /\ con = "disconnected"
    /\ csv_file = "closed"

\* The robot is within 0.5 degrees of the column being waited for.
AtTarget ==
  /\ x_i < NumCols
  /\ UnderHalfDegree(actual_q, [j \in 1..6 |-> deg2rad(trajectory_deg[x_i + 1][j])])

\* C26: if, whenever the call waits for a column, the robot keeps coming
\* within tolerance of that column (and no command fails to be sent), a call
\* that has started eventually returns; the call returns only when every
\* column has been reported as reached, and the command of a column is sent
\* only when every earlier column has been.
C26_ReturnsWhenEveryColumnReached ==
  /\ (([]<>(x_pc = "wait" => AtTarget)) /\ [](x_pc # "raised"))
       => ((x_pc = "connect") ~> (x_pc = "done"))
  /\ [](x_pc = "done" => (x_i = NumCols /\ Len(reached_at) = NumCols))
  /\ [](Len(sent) <= Len(reached_at) + 1)
  /\ [](x_pc = "wait" => (Len(sent) = x_i + 1 /\ Len(reached_at) = x_i))

\* A call without logging has returned after two columns.
C26_Witness ==
  /\ ~with_logging
  /\ x_pc = "done"
  /\ Len(trajectory_deg) = 2
  /\ Len(reached_at) = 2
  /\ con = "disconnected"

====
